---- MODULE Spec2Model ----
(***************************************************************************)
(* Model of the ranking / search / delete service of RushEight-backend     *)
(* (UsersService, src/unnamed/part_002) on top of its Record Store (the    *)
(* Prisma "User" table on PostgreSQL).                                     *)
(*                                                                         *)
(* Strings are sequences of one-character strings, so that trim, length,   *)
(* the forbidden-character test and the case-insensitive substring match   *)
(* are computed and not assumed.  A JavaScript number is a record          *)
(* [kind, val]: kind "int" is the integer val, kind "frac" is val + 1/2,   *)
(* kind "nan" is NaN.  A nullable integer column is <<>> (NULL) or <<n>>.  *)
(***************************************************************************)
EXTENDS Integers, Sequences, FiniteSets, TLC

VARIABLES
    store,        \* the rows of the User table
    inflightCap,  \* how many requests the server is handling at once (fixed per run)
    pc,           \* pc[p]: where request handler p stands
    req,          \* req[p]: the service call p is executing, with its arguments
    local,        \* local[p]: totalUserCount, totalPages, skip of getRankedUsers
    issued,       \* issued[p]: the store statements p has issued for this call
    raised,       \* raised[p]: the error the catch block of this call received
    resp,         \* resp[p]: what the call returned or threw to its caller
    snap,         \* snap[p]: the table as it was when the call started (history)
    deleted,      \* userIds whose delete has returned success (history)
    seen,         \* seen[p]: `deleted` as it was when the call started (history)
    walk,         \* the pages a caller has listed one after another (history)
    ui            \* the state of the UsersClient component in the browser

vars == <<store, inflightCap, pc, req, local, issued, raised, resp, snap, deleted,
          seen, walk, ui>>

Procs == {1, 2}

(***************************************************************************)
(* Bounds of the model.                                                    *)
(***************************************************************************)
MaxPage == 3          \* pages 1..MaxPage are requested, next to the edge cases
MaxSmallPageSize == 3 \* page sizes 1..MaxSmallPageSize, next to the edge cases
BigPage == 1000000    \* a page far beyond any table, page has no upper bound
NumBulk == 51         \* rows of the bulk table: more than the search cap
ExtraRows == 1        \* rows of the browser's table beyond one page of the UI
MaxUiDeletes == 2     \* deletes confirmed in one browser session

(***************************************************************************)
(* Program constants.                                                      *)
(***************************************************************************)
MaxPageSize == 1000
MinKeywordLen == 2
MaxKeywordLen == 30
MaxUserIdLen == 30
SearchTake == 50
UiPageSize == 100

(***************************************************************************)
(* Strings.                                                                *)
(***************************************************************************)
WhiteSpace == {" ", "\t", "\n"}

\* the character class of /[<>{}[\]\\]/
SpecialChars == {"<", ">", "{", "}", "[", "]", "\\"}

Rep(c, n) == [i \in 1..n |-> c]

UpperToLower ==
    [c \in {"A", "B", "C", "K", "L", "O", "T", "X", "Y"} |->
        CASE c = "A" -> "a" [] c = "B" -> "b" [] c = "C" -> "c"
          [] c = "K" -> "k" [] c = "L" -> "l" [] c = "O" -> "o"
          [] c = "T" -> "t" [] c = "X" -> "x" [] c = "Y" -> "y"]

LowerChar(c) == IF c \in DOMAIN UpperToLower THEN UpperToLower[c] ELSE c

ToLower(s) == [i \in 1..Len(s) |-> LowerChar(s[i])]

\* String.prototype.trim: drops the leading and the trailing white space
Trim(s) ==
    LET keep == {i \in 1..Len(s) : s[i] \notin WhiteSpace}
    IN  IF keep = {} THEN <<>>
        ELSE LET lo == CHOOSE i \in keep : \A j \in keep : i <= j
                 hi == CHOOSE i \in keep : \A j \in keep : i >= j
             IN  SubSeq(s, lo, hi)

\* needle occurs in hay as a contiguous substring
IsSubstring(needle, hay) ==
    \E k \in 0..(Len(hay) - Len(needle)) :
        \A i \in 1..Len(needle) : hay[k + i] = needle[i]

\* Prisma { contains: kw, mode: 'insensitive' }
ContainsInsensitive(field, kw) == IsSubstring(ToLower(kw), ToLower(field))

\* RegExp.prototype.test of the special-character class
HasSpecialChar(s) == \E i \in 1..Len(s) : s[i] \in SpecialChars

(***************************************************************************)
(* Numbers.                                                                *)
(***************************************************************************)
Num(n) == [kind |-> "int", val |-> n]
Frac(n) == [kind |-> "frac", val |-> n]
NaN == [kind |-> "nan", val |-> 0]

IsInteger(x) == x.kind = "int"
\* x < n and x > n for an integer n
Less(x, n) == x.kind # "nan" /\ x.val < n
Greater(x, n) == CASE x.kind = "int" -> x.val > n
                   [] x.kind = "frac" -> x.val >= n
                   [] OTHER -> FALSE

Min(a, b) == IF a <= b THEN a ELSE b

\* Math.ceil(a / b) for a >= 0, b >= 1
Ceil(a, b) == (a + b - 1) \div b

(***************************************************************************)
(* Errors and responses.                                                   *)
(***************************************************************************)
NoCode == <<>>

\* new HttpException(message, status)
HttpException(message, status) ==
    [class |-> "HttpException", message |-> message, status |-> status,
     hasCode |-> FALSE, code |-> NoCode]

\* what a failing store statement rejects with: a Prisma known request error
\* carries a string `code` "Pnnnn"; an initialization error (database not
\* reachable), an unknown request error and an engine panic carry no `code`;
\* a socket error of the driver carries a `code` that is not a Prisma code
StoreErrors ==
    { [class |-> "PrismaClientKnownRequestError", message |-> "driver detail",
       status |-> "", hasCode |-> TRUE, code |-> <<"P", "2", "0", "2", "4">>],
      [class |-> "PrismaClientInitializationError", message |-> "driver detail",
       status |-> "", hasCode |-> FALSE, code |-> NoCode],
      [class |-> "PrismaClientUnknownRequestError", message |-> "driver detail",
       status |-> "", hasCode |-> FALSE, code |-> NoCode],
      [class |-> "SocketError", message |-> "driver detail",
       status |-> "", hasCode |-> TRUE, code |-> <<"E", "P", "I", "P", "E">>] }

\* prisma.user.delete on a row that is gone rejects with P2025
RecordToDeleteNotFound ==
    [class |-> "PrismaClientKnownRequestError", message |-> "driver detail",
     status |-> "", hasCode |-> TRUE, code |-> <<"P", "2", "0", "2", "5">>]

NoError == [class |-> "none", message |-> "", status |-> "",
            hasCode |-> FALSE, code |-> NoCode]

NoResp == [class |-> "none"]

handleCommonErrors(error) ==
    IF error.class = "HttpException"
    THEN error
    ELSE IF error.hasCode /\ Len(error.code) >= 1 /\ error.code[1] = "P"
         THEN HttpException("An error occurred while accessing the database",
                            "INTERNAL_SERVER_ERROR")
         ELSE HttpException("An unexpected error occurred",
                            "INTERNAL_SERVER_ERROR")

buildRankedUsersResponse(users, totalCount, currentPage, totalPages, hasMore) ==
    [class |-> "RankedUsers", users |-> users, totalCount |-> totalCount,
     currentPage |-> currentPage, totalPages |-> totalPages, hasMore |-> hasMore]

(***************************************************************************)
(* Validation.  Each operator is the exception the validator throws, or    *)
(* NoError when it returns.                                                *)
(***************************************************************************)
\* faulty variant: no upper limit on the page size
validatePageParamsNoUpper(page, pageSize) ==
    IF ~IsInteger(page) \/ Less(page, 1)
    THEN HttpException("Page number must be a positive integer", "BAD_REQUEST")
    ELSE IF ~IsInteger(pageSize) \/ Less(pageSize, 1)
         THEN HttpException("Page size must be an integer between 1 and 1000",
                            "BAD_REQUEST")
         ELSE NoError

validatePageParams(page, pageSize) ==
    IF ~IsInteger(page) \/ Less(page, 1)
    THEN HttpException("Page number must be a positive integer", "BAD_REQUEST")
    ELSE IF ~IsInteger(pageSize) \/ Less(pageSize, 1) \/ Greater(pageSize, MaxPageSize)
         THEN HttpException("Page size must be an integer between 1 and 1000",
                            "BAD_REQUEST")
         ELSE NoError

\* faulty variant: the lengths are those of the keyword as given, not trimmed
validateKeywordUntrimmed(keyword) ==
    IF keyword = <<>> \/ Len(Trim(keyword)) = 0
    THEN HttpException("Search keyword cannot be empty", "BAD_REQUEST")
    ELSE IF Len(keyword) < MinKeywordLen
         THEN HttpException("Search keyword must be at least 2 characters long",
                            "BAD_REQUEST")
         ELSE IF Len(keyword) > MaxKeywordLen
              THEN HttpException("Search keyword cannot exceed 30 characters",
                                 "BAD_REQUEST")
              ELSE IF HasSpecialChar(keyword)
                   THEN HttpException("Search keyword contains invalid characters",
                                      "BAD_REQUEST")
                   ELSE NoError

validateKeyword(keyword) ==
    IF keyword = <<>> \/ Len(Trim(keyword)) = 0
    THEN HttpException("Search keyword cannot be empty", "BAD_REQUEST")
    ELSE LET trimmedKeyword == Trim(keyword)
         IN  IF Len(trimmedKeyword) < MinKeywordLen
             THEN HttpException("Search keyword must be at least 2 characters long",
                                "BAD_REQUEST")
             ELSE IF Len(trimmedKeyword) > MaxKeywordLen
                  THEN HttpException("Search keyword cannot exceed 30 characters",
                                     "BAD_REQUEST")
                  ELSE IF HasSpecialChar(trimmedKeyword)
                       THEN HttpException("Search keyword contains invalid characters",
                                          "BAD_REQUEST")
                       ELSE NoError

validateUserId(userId) ==
    IF userId = <<>>
    THEN HttpException("Invalid userId format", "BAD_REQUEST")
    ELSE IF Len(userId) > MaxUserIdLen
         THEN HttpException("UserId cannot exceed 30 characters", "BAD_REQUEST")
         ELSE IF HasSpecialChar(userId)
              THEN HttpException("UserId contains invalid characters", "BAD_REQUEST")
              ELSE NoError

(***************************************************************************)
(* The Record Store: rows [userId, nickname, level, exp], userId unique,   *)
(* exp nullable.  The other columns take no part in any query condition.   *)
(***************************************************************************)
NULL == <<>>

User(userId, nickname, level, exp) ==
    [userId |-> userId, nickname |-> nickname, level |-> level, exp |-> exp]

SmallUsers ==
    { User(<<"a", "b">>, <<"K", "i", "m">>, 50, <<100>>),
      User(<<"A", "B">>, <<"L", "e", "e">>, 50, <<200>>),
      User(<<"c", "d">>, <<"B", "o", "b">>, 40, <<999>>),
      User(<<"e", "f">>, <<"x", "A", "b", "y">>, 50, NULL),
      User(<<"g", "h">>, <<"L", "e", "e">>, 50, <<200>>) }

Digit == <<"0", "1", "2", "3", "4", "5", "6", "7", "8", "9">>

\* NumBulk rows whose nickname is "Bot", all of different level
BulkUsers ==
    { User(<<"u", Digit[(i \div 10) + 1], Digit[(i % 10) + 1]>>, <<"B", "o", "t">>,
           i, IF i % 4 = 0 THEN NULL ELSE <<i % 3>>) : i \in 1..NumBulk }

\* ORDER BY exp DESC of PostgreSQL: NULLs sort as larger than every value
ExpBefore(a, b) ==
    IF a = NULL THEN b # NULL ELSE b # NULL /\ a[1] > b[1]

\* orderBy: [{ level: 'desc' }, { exp: 'desc' }]: r is placed strictly before s
Before(r, s) ==
    \/ r.level > s.level
    \/ r.level = s.level /\ ExpBefore(r.exp, s.exp)

\* every order the store may return the rows of S in: rows the ORDER BY does
\* not separate come in any order
\* the ORDER BY separates every two rows of S
Separated(S) == \A r, s \in S : r = s \/ Before(r, s) \/ Before(s, r)

\* the one order of a table whose rows the ORDER BY separates
Sorted(S) ==
    [i \in 1..Cardinality(S) |->
        CHOOSE r \in S : Cardinality({s \in S : Before(s, r)}) = i - 1]

RECURSIVE Rankings(_)
Rankings(S) ==
    IF S = {} THEN {<<>>}
    ELSE IF Separated(S) THEN {Sorted(S)}
    ELSE LET top == {r \in S : \A s \in S : ~Before(s, r)}
         IN  UNION {{<<r>> \o t : t \in Rankings(S \ {r})} : r \in top}

\* faulty variant: take is not applied
WindowNoTake(rows, skip, take) == SubSeq(rows, skip + 1, Len(rows))

\* skip / take of an ordered result
Window(rows, skip, take) == SubSeq(rows, skip + 1, Min(Len(rows), skip + take))

\* findMany({ where, orderBy, skip, take }): the results the store may give
findMany(rows, skip, take) == {Window(rk, skip, take) : rk \in Rankings(rows)}

\* where: { OR: [{ userId: contains }, { nickname: contains }] }
SearchWhere(rows, kw) ==
    {r \in rows : \/ ContainsInsensitive(r.userId, kw)
                  \/ ContainsInsensitive(r.nickname, kw)}

\* faulty variant: the identifier compared without regard to letter case
findUniqueAnyCase(rows, userId) ==
    {r \in rows : ToLower(r.userId) = ToLower(userId)}

\* findUnique({ where: { userId } })
findUnique(rows, userId) == {r \in rows : r.userId = userId}

\* faulty variant: the page count rounded down
TotalPagesFloor(totalUserCount, pageSize) == totalUserCount \div pageSize

TotalPages(totalUserCount, pageSize) == Ceil(totalUserCount, pageSize)

\* faulty variant: the empty table is not told apart
NoUsersNever(totalUserCount) == FALSE

\* if (totalUserCount === 0)
NoUsers(totalUserCount) == totalUserCount = 0

SkipOf(page, pageSize) == (page - 1) * pageSize

HasMore(skip, pageSize, totalUserCount) == skip + pageSize < totalUserCount

(***************************************************************************)
(* The requests the callers make.                                          *)
(***************************************************************************)
\* with one request at a time the callers try every edge of the input space;
\* overlapping requests use the few inputs that make the statements interleave
PageInputs ==
    IF inflightCap = 1
    THEN {Num(n) : n \in 0..MaxPage} \cup {Num(-1), Num(BigPage), Frac(1), NaN}
    ELSE {Num(n) : n \in 1..2}

PageSizeInputs ==
    IF inflightCap = 1
    THEN {Num(n) : n \in 0..MaxSmallPageSize}
            \cup {Num(-1), Num(10), Num(MaxPageSize), Num(MaxPageSize + 1),
                  Frac(2), NaN}
    ELSE {Num(n) : n \in 0..2}

KeywordInputs ==
    IF inflightCap = 1
    THEN { <<>>, <<" ", " ">>, <<"a">>, <<" ", "a", " ">>, <<"a", "b">>,
           <<" ", "a", "B", "\t">>, <<"o", "T">>, <<"e", "e">>, <<"z", "z">>,
           <<"<", "a", ">">>, Rep("a", MaxKeywordLen), Rep("a", MaxKeywordLen + 1),
           <<" ">> \o Rep("a", MaxKeywordLen) \o <<" ">>,
           <<" ">> \o Rep("a", MaxKeywordLen + 1) }
             \cup {<<"a", "b", c>> : c \in SpecialChars}
    ELSE {<<"a">>, <<"a", "b">>}

UserIdInputs ==
    IF inflightCap = 1
    THEN { <<>>, <<"a", "b">>, <<"A", "B">>, <<"c", "d">>, <<"z", "z">>,
           <<"a", "B">>, <<"a", "b", " ">>, Rep("a", MaxUserIdLen),
           Rep("a", MaxUserIdLen + 1) }
             \cup {<<"a", c>> : c \in SpecialChars}
    ELSE {<<>>, <<"a", "b">>, <<"e", "f">>}

(***************************************************************************)
(* The query strings of GET users/ranked and their coercion.               *)
(***************************************************************************)
\* a query parameter: a string, or undefined when the URL does not carry it
Given(text) == [given |-> TRUE, text |-> text]
Undefined == [given |-> FALSE, text |-> <<>>]
NoQuery == [page |-> Undefined, pageSize |-> Undefined]

\* String(x) of the argument of parseInt
StringOf(q) ==
    IF q.given THEN q.text ELSE <<"u", "n", "d", "e", "f", "i", "n", "e", "d">>

IsDigit(c) == \E d \in 1..10 : Digit[d] = c

RECURSIVE Decimal(_)
Decimal(digits) ==
    IF digits = <<>> THEN 0
    ELSE LET last == digits[Len(digits)]
             d == CHOOSE i \in 1..10 : Digit[i] = last
         IN  10 * Decimal(SubSeq(digits, 1, Len(digits) - 1)) + (d - 1)

\* parseInt(s, 10): leading white space is skipped, a sign is taken, then the
\* longest run of digits; NaN when there is no digit there
ParseInt(s) ==
    LET n == Len(s)
        start == CHOOSE i \in 1..(n + 1) :
                    /\ i = n + 1 \/ s[i] \notin WhiteSpace
                    /\ \A j \in 1..(i - 1) : s[j] \in WhiteSpace
        signed == start <= n /\ s[start] \in {"+", "-"}
        first == IF signed THEN start + 1 ELSE start
        stop == CHOOSE i \in first..(n + 1) :
                    /\ i = n + 1 \/ ~IsDigit(s[i])
                    /\ \A j \in first..(i - 1) : IsDigit(s[j])
        value == Decimal(SubSeq(s, first, stop - 1))
    IN  IF stop = first THEN NaN
        ELSE Num(IF signed /\ s[start] = "-" THEN 0 - value ELSE value)

\* x || fallback: NaN and 0 are falsy
OrElse(x, fallback) ==
    IF x.kind = "nan" \/ (x.kind = "int" /\ x.val = 0) THEN Num(fallback) ELSE x

QueryPageInputs ==
    IF inflightCap = 1
    THEN {Undefined, Given(<<>>), Given(<<"0">>), Given(<<"2", "x">>)}
    ELSE {Undefined}

QueryPageSizeInputs ==
    IF inflightCap = 1
    THEN { Undefined, Given(<<"0">>), Given(<<" ", "1">>), Given(<<"-", "1">>),
           Given(<<"1", "0", "0", "1">>) }
    ELSE {Given(<<"2">>)}

NoReq == [op |-> "none"]

\* no listing of consecutive pages is under way
NoWalk == [size |-> 0, next |-> 0, pages |-> 0, rows |-> <<>>, table |-> {}]

\* the request lists page 1, or the page that follows the pages listed so far,
\* while no other request is being handled
ContinuesWalk(request) ==
    /\ inflightCap = 1
    /\ request.op = "getRankedUsers"
    /\ request.page.kind = "int" /\ request.pageSize.kind = "int"
    /\ \/ request.page.val = 1
       \/ /\ walk # NoWalk
          /\ request.page.val = walk.next
          /\ request.pageSize.val = walk.size

\* the walk after the caller has taken the answer of request r
WalkAfter(r, answer, table) ==
    IF r.op = "getRankedUsers" /\ answer.class = "RankedUsers"
    THEN IF r.page.val = 1
         THEN [size |-> r.pageSize.val, next |-> 2, pages |-> answer.totalPages,
               rows |-> answer.users, table |-> table]
         ELSE IF /\ walk # NoWalk /\ walk.table = table
                 /\ r.page.val = walk.next /\ r.pageSize.val = walk.size
              THEN [walk EXCEPT !.next = @ + 1, !.rows = @ \o answer.users]
              ELSE NoWalk
    ELSE NoWalk
NoLocal == [totalUserCount |-> 0, totalPages |-> 0, skip |-> 0]

StoreStatements == {"count", "findMany", "search", "findUnique", "delete"}

\* the tables a run may start from
SerialStores == (SUBSET SmallUsers) \cup {BulkUsers}
ConcurrentStores ==
    LET top == {u \in SmallUsers : u.level = 50}
    IN  (SUBSET {u \in top : u.nickname # <<"L", "e", "e">>}) \cup {top}

(***************************************************************************)
(* The browser: the UsersClient component and its table.                   *)
(***************************************************************************)
\* no browser is attached
NoUi == [phase |-> "none"]

\* String(n) of a non-negative integer, as axios writes it into the URL
RECURSIVE DecimalString(_)
DecimalString(n) ==
    IF n < 10 THEN <<Digit[n + 1]>>
    ELSE DecimalString(n \div 10) \o <<Digit[(n % 10) + 1]>>

\* one page of the UI and ExtraRows more, all of different level
UiUsers ==
    { User(<<"u">> \o DecimalString(i), <<"B", "o", "t">>, i, <<i % 3>>) :
        i \in 1..(UiPageSize + ExtraRows) }

UiStores ==
    {{}, {u \in SmallUsers : u.level = 40 \/ u.exp = <<100>>}, UiUsers}

\* the component after its first render: useState initial values, and the
\* effect of the mount is due
Mounted ==
    [phase |-> "effect", currentPage |-> 1, searchQuery |-> <<>>,
     error |-> FALSE, users |-> <<>>, totalCount |-> 0, awaits |-> "none",
     afterDelete |-> FALSE, userToDelete |-> <<>>, failed |-> "none",
     acts |-> {}, deletes |-> 0]

\* what the user may put into the search bar
TypedTexts ==
    { <<>>, <<"a">>, <<"a", "b">>, <<"z", "z">>, <<"a", " ">>, <<" ", " ">>,
      <<"<", "a">>, Rep("a", MaxKeywordLen + 1) }

\* what the user may put into the page box of the pagination
PageBoxTexts == {<<"0">>, <<"2">>, <<"9">>, <<"x">>}

InitWith(cap, stores) ==
    /\ store \in stores
    /\ inflightCap = cap
    /\ pc = [p \in Procs |-> "idle"]
    /\ req = [p \in Procs |-> NoReq]
    /\ local = [p \in Procs |-> NoLocal]
    /\ issued = [p \in Procs |-> <<>>]
    /\ raised = [p \in Procs |-> NoError]
    /\ resp = [p \in Procs |-> NoResp]
    /\ snap = [p \in Procs |-> {}]
    /\ deleted = {}
    /\ seen = [p \in Procs |-> {}]
    /\ walk = NoWalk

\* one request at a time
Init == InitWith(1, SerialStores) /\ ui = NoUi

\* requests overlap, statement by statement
InitConcurrent == InitWith(2, ConcurrentStores) /\ ui = NoUi

CanStart(p) ==
    /\ pc[p] = "idle"
    /\ Cardinality({q \in Procs : pc[q] # "idle"}) < inflightCap

\* faulty variant: the first statement is issued whatever the validator says
EnterUnvalidated(p, request, thrown, first) ==
    /\ req' = [req EXCEPT ![p] = request]
    /\ snap' = [snap EXCEPT ![p] = store]
    /\ pc' = [pc EXCEPT ![p] = first]
    /\ seen' = [seen EXCEPT ![p] = deleted]
    /\ walk' = IF ContinuesWalk(request) THEN walk ELSE NoWalk
    /\ UNCHANGED <<store, inflightCap, local, issued, raised, resp, deleted>>

\* the call and everything it does before its first await: the validator runs
\* outside the try block, so what it throws goes to the caller as it is
Enter(p, request, thrown, first) ==
    /\ req' = [req EXCEPT ![p] = request]
    /\ snap' = [snap EXCEPT ![p] = store]
    /\ IF thrown # NoError
       THEN /\ pc' = [pc EXCEPT ![p] = "done"]
            /\ resp' = [resp EXCEPT ![p] = thrown]
       ELSE /\ pc' = [pc EXCEPT ![p] = first]
            /\ UNCHANGED resp
    /\ seen' = [seen EXCEPT ![p] = deleted]
    /\ walk' = IF ContinuesWalk(request) THEN walk ELSE NoWalk
    /\ UNCHANGED <<store, inflightCap, local, issued, raised, deleted>>

\* a statement of the try block ends the call: with a result, or with an
\* error that the catch block hands to handleCommonErrors
Finish(p, statement, result) ==
    /\ pc' = [pc EXCEPT ![p] = "done"]
    /\ issued' = [issued EXCEPT ![p] = Append(@, statement)]
    /\ resp' = [resp EXCEPT ![p] = result]
    /\ UNCHANGED raised

Catch(p, statement, error) ==
    /\ pc' = [pc EXCEPT ![p] = "done"]
    /\ issued' = [issued EXCEPT ![p] = Append(@, statement)]
    /\ raised' = [raised EXCEPT ![p] = error]
    /\ resp' = [resp EXCEPT ![p] = handleCommonErrors(error)]

(***************************************************************************)
(* getRankedUsers(page, pageSize)                                          *)
(***************************************************************************)
getRankedUsers(p) ==
    /\ CanStart(p)
    /\ \E page \in PageInputs, pageSize \in PageSizeInputs :
           Enter(p, [op |-> "getRankedUsers", page |-> page, pageSize |-> pageSize,
                     via |-> "service", query |-> NoQuery],
                 validatePageParams(page, pageSize), "count")
    /\ UNCHANGED ui

\* GET users/ranked?page=..&pageSize=..: the controller coerces the two query
\* strings and calls the service
getRanked(p) ==
    /\ CanStart(p)
    /\ \E page \in QueryPageInputs, pageSize \in QueryPageSizeInputs :
           LET pageNum == OrElse(ParseInt(StringOf(page)), 1)
               pageSizeNum == OrElse(ParseInt(StringOf(pageSize)), 10)
           IN  Enter(p, [op |-> "getRankedUsers",
                         page |-> pageNum, pageSize |-> pageSizeNum,
                         via |-> "http",
                         query |-> [page |-> page, pageSize |-> pageSize]],
                     validatePageParams(pageNum, pageSizeNum), "count")
    /\ UNCHANGED ui

\* await prisma.user.count() and the code up to the next await
RankedCount(p) ==
    /\ pc[p] = "count"
    /\ LET page == req[p].page.val
           pageSize == req[p].pageSize.val
           totalUserCount == Cardinality(store)
           totalPages == TotalPages(totalUserCount, pageSize)
       IN  IF NoUsers(totalUserCount)
           THEN /\ Finish(p, "count",
                          buildRankedUsersResponse(<<>>, 0, page, 0, FALSE))
                /\ UNCHANGED local
           ELSE IF page > totalPages
                THEN /\ Catch(p, "count", HttpException("Page not found", "NOT_FOUND"))
                     /\ UNCHANGED local
                ELSE /\ pc' = [pc EXCEPT ![p] = "findMany"]
                     /\ issued' = [issued EXCEPT ![p] = Append(@, "count")]
                     /\ local' = [local EXCEPT ![p] =
                            [totalUserCount |-> totalUserCount,
                             totalPages |-> totalPages,
                             skip |-> SkipOf(page, pageSize)]]
                     /\ UNCHANGED <<raised, resp>>
    /\ UNCHANGED <<store, inflightCap, req, snap, deleted, seen, walk, ui>>

\* await prisma.user.findMany({ orderBy, skip, take }) and the return
RankedFindMany(p) ==
    /\ pc[p] = "findMany"
    /\ LET pageSize == req[p].pageSize.val
           l == local[p]
       IN  \E users \in findMany(store, l.skip, pageSize) :
               Finish(p, "findMany",
                      buildRankedUsersResponse(users, l.totalUserCount,
                          req[p].page.val, l.totalPages,
                          HasMore(l.skip, pageSize, l.totalUserCount)))
    /\ UNCHANGED <<store, inflightCap, req, local, snap, deleted, seen, walk, ui>>

(***************************************************************************)
(* searchUsersByKeyword(keyword)                                           *)
(***************************************************************************)
searchUsersByKeyword(p) ==
    /\ CanStart(p)
    /\ \E keyword \in KeywordInputs :
           Enter(p, [op |-> "searchUsersByKeyword", keyword |-> keyword],
                 validateKeyword(keyword), "search")
    /\ UNCHANGED ui

\* await prisma.user.findMany({ where, orderBy, take: 50 }) and the return
SearchFindMany(p) ==
    /\ pc[p] = "search"
    /\ LET keyword == req[p].keyword
       IN  \E searchResults \in
                 findMany(SearchWhere(store, Trim(keyword)), 0, SearchTake) :
               Finish(p, "search",
                      [class |-> "SearchResult", searchResults |-> searchResults,
                       totalCount |-> Len(searchResults), keyword |-> Trim(keyword)])
    /\ UNCHANGED <<store, inflightCap, req, local, snap, deleted, seen, walk, ui>>

(***************************************************************************)
(* deleteUserByUserId(userId)                                              *)
(***************************************************************************)
deleteUserByUserId(p) ==
    /\ CanStart(p)
    /\ \E userId \in UserIdInputs :
           Enter(p, [op |-> "deleteUserByUserId", userId |-> userId],
                 validateUserId(userId), "findUnique")
    /\ UNCHANGED ui

\* await prisma.user.findUnique({ where: { userId } }) and the existence test
DeleteFindUnique(p) ==
    /\ pc[p] = "findUnique"
    /\ LET existingUser == findUnique(store, req[p].userId)
       IN  IF existingUser = {}
           THEN Catch(p, "findUnique", HttpException("User not found", "NOT_FOUND"))
           ELSE /\ pc' = [pc EXCEPT ![p] = "delete"]
                /\ issued' = [issued EXCEPT ![p] = Append(@, "findUnique")]
                /\ UNCHANGED <<raised, resp>>
    /\ UNCHANGED <<store, inflightCap, req, local, snap, deleted, seen, walk, ui>>

\* a delete that answers success and keeps the row
DeleteDeleteKeepsRow(p) ==
    /\ pc[p] = "delete"
    /\ LET row == findUnique(store, req[p].userId)
       IN  IF row = {}
           THEN /\ Catch(p, "delete", RecordToDeleteNotFound)
                /\ UNCHANGED store
           ELSE /\ store' = store
                /\ Finish(p, "delete",
                          [class |-> "Deleted", success |-> TRUE,
                           message |-> req[p].userId])
    /\ UNCHANGED <<inflightCap, req, local, snap, deleted, seen, walk, ui>>

\* await prisma.user.delete({ where: { userId } }) and the return
DeleteDelete(p) ==
    /\ pc[p] = "delete"
    /\ LET row == findUnique(store, req[p].userId)
       IN  IF row = {}
           THEN /\ Catch(p, "delete", RecordToDeleteNotFound)
                /\ UNCHANGED store
           ELSE /\ store' = store \ row
                /\ Finish(p, "delete",
                          [class |-> "Deleted", success |-> TRUE,
                           message |-> req[p].userId])
    /\ UNCHANGED <<inflightCap, req, local, snap, deleted, seen, walk, ui>>

(***************************************************************************)
(* The environment: a store statement fails; the caller takes the answer.  *)
(***************************************************************************)
StoreFails(p) ==
    /\ pc[p] \in StoreStatements
    /\ \E error \in StoreErrors : Catch(p, pc[p], error)
    /\ UNCHANGED <<store, inflightCap, req, local, snap, deleted, seen, walk, ui>>

\* the answer leaves the server and the handler is free again
Answer(p) ==
    /\ pc[p] = "done"
    /\ deleted' = IF resp[p].class = "Deleted"
                  THEN deleted \cup {req[p].userId} ELSE deleted
    /\ pc' = [pc EXCEPT ![p] = "idle"]
    /\ req' = [req EXCEPT ![p] = NoReq]
    /\ local' = [local EXCEPT ![p] = NoLocal]
    /\ issued' = [issued EXCEPT ![p] = <<>>]
    /\ raised' = [raised EXCEPT ![p] = NoError]
    /\ resp' = [resp EXCEPT ![p] = NoResp]
    /\ snap' = [snap EXCEPT ![p] = {}]
    /\ seen' = [seen EXCEPT ![p] = {}]
    /\ walk' = IF inflightCap = 1 /\ snap[p] = store
               THEN WalkAfter(req[p], resp[p], store)
               ELSE NoWalk
    /\ UNCHANGED <<store, inflightCap>>

Return(p) ==
    /\ Answer(p)
    /\ UNCHANGED ui

(***************************************************************************)
(* UsersClient: the browser calls the endpoints through handler 1.         *)
(***************************************************************************)
service == <<store, inflightCap, pc, req, local, issued, raised, resp, snap,
             deleted, seen, walk>>

InitUI == InitWith(1, UiStores) /\ ui = Mounted

\* fetchUsers(currentPage, pageSize): axios writes the two numbers into the
\* query string and the controller coerces them
doFetchRanking ==
    LET query == [page |-> Given(DecimalString(ui.currentPage)),
                  pageSize |-> Given(DecimalString(UiPageSize))]
        pageNum == OrElse(ParseInt(StringOf(query.page)), 1)
        pageSizeNum == OrElse(ParseInt(StringOf(query.pageSize)), 10)
    IN  /\ Enter(1, [op |-> "getRankedUsers",
                     page |-> pageNum, pageSize |-> pageSizeNum,
                     via |-> "http", query |-> query],
                 validatePageParams(pageNum, pageSizeNum), "count")
        /\ ui' = [ui EXCEPT !.phase = "wait", !.awaits = "list", !.error = FALSE]

\* searchUsers(searchQuery)
doSearch ==
    /\ Enter(1, [op |-> "searchUsersByKeyword", keyword |-> ui.searchQuery],
             validateKeyword(ui.searchQuery), "search")
    /\ ui' = [ui EXCEPT !.phase = "wait", !.awaits = "search", !.error = FALSE]

handleError(cause) ==
    [ui EXCEPT !.phase = "idle", !.error = TRUE, !.users = <<>>,
               !.totalCount = 0, !.failed = cause, !.afterDelete = FALSE]

\* useEffect(..., [searchQuery, currentPage])
useEffect ==
    /\ ui.phase = "effect"
    /\ pc[1] = "idle"
    /\ IF Len(ui.searchQuery) >= MinKeywordLen
       THEN IF ui.currentPage # 1
            THEN /\ ui' = [ui EXCEPT !.currentPage = 1]
                 /\ UNCHANGED service
            ELSE doSearch
       ELSE doFetchRanking

\* the rest of doFetchRanking: the answer of fetchUsers, or what axios throws
\* for a status that is not 2xx
FetchUsersReturns ==
    /\ ui.phase = "wait" /\ ui.awaits = "list"
    /\ Answer(1)
    /\ ui' = IF resp[1].class = "RankedUsers"
             THEN [ui EXCEPT !.phase = "idle", !.users = resp[1].users,
                             !.totalCount = resp[1].totalCount,
                             !.afterDelete = FALSE]
             ELSE handleError(IF ui.afterDelete THEN "refetch" ELSE "list")

\* the rest of doSearch
SearchUsersReturns ==
    /\ ui.phase = "wait" /\ ui.awaits = "search"
    /\ Answer(1)
    /\ ui' = IF resp[1].class = "SearchResult"
             THEN [ui EXCEPT !.phase = "idle", !.users = resp[1].searchResults,
                             !.totalCount = resp[1].totalCount,
                             !.afterDelete = FALSE]
             ELSE handleError(IF ui.afterDelete THEN "refetch" ELSE "search")

\* the user is looking at the table and the search bar
Rendered == ui.phase = "idle" /\ ~ui.error /\ pc[1] = "idle"

\* SearchBar onChange
setSearchQuery ==
    /\ Rendered
    /\ \E text \in TypedTexts \ {ui.searchQuery} :
           ui' = [ui EXCEPT !.searchQuery = text, !.phase = "effect",
                            !.acts = @ \cup {"type"}]
    /\ UNCHANGED service

\* Math.ceil(totalCount / pageSize) of DataTable
UiTotalPages == (ui.totalCount + UiPageSize - 1) \div UiPageSize

setCurrentPage(page) ==
    /\ page # ui.currentPage
    /\ ui' = [ui EXCEPT !.currentPage = page, !.phase = "effect",
                        !.acts = @ \cup {"page"}]

\* the buttons of Pagination
PreviousPage ==
    /\ Rendered
    /\ ui.currentPage # 1
    /\ setCurrentPage(ui.currentPage - 1)
    /\ UNCHANGED service

NextPage ==
    /\ Rendered
    /\ ~(ui.currentPage >= UiTotalPages)
    /\ setCurrentPage(ui.currentPage + 1)
    /\ UNCHANGED service

handleGoToPage ==
    /\ Rendered
    /\ \E text \in PageBoxTexts :
           LET newPage == OrElse(ParseInt(text), 1).val
               capped == IF newPage < UiTotalPages THEN newPage ELSE UiTotalPages
           IN  setCurrentPage(IF capped > 1 THEN capped ELSE 1)
    /\ UNCHANGED service

\* the delete button of a row and the confirmation of the dialog, up to
\* await deleteUser(userToDelete)
handleConfirmDelete ==
    /\ Rendered
    /\ ui.deletes < MaxUiDeletes
    /\ ui.users # <<>>
    /\ \E i \in {1, Len(ui.users)} :
           LET userId == ui.users[i].userId
           IN  /\ Enter(1, [op |-> "deleteUserByUserId", userId |-> userId],
                        validateUserId(userId), "findUnique")
               /\ ui' = [ui EXCEPT !.phase = "wait", !.awaits = "delete",
                                   !.userToDelete = userId,
                                   !.acts = @ \cup {"delete"},
                                   !.deletes = @ + 1]

\* the answer of deleteUser: res.ok, or the throw
DeleteUserReturns ==
    /\ ui.phase = "wait" /\ ui.awaits = "delete"
    /\ Answer(1)
    /\ ui' = IF resp[1].class = "Deleted"
             THEN [ui EXCEPT !.phase = "refetch", !.afterDelete = TRUE]
             ELSE handleError("delete")

\* handleConfirmDelete after the delete: search or list again
RefetchAfterDelete ==
    /\ ui.phase = "refetch"
    /\ pc[1] = "idle"
    /\ IF Len(ui.searchQuery) >= MinKeywordLen THEN doSearch ELSE doFetchRanking

NextUI ==
    \/ useEffect
    \/ FetchUsersReturns
    \/ SearchUsersReturns
    \/ setSearchQuery
    \/ PreviousPage
    \/ NextPage
    \/ handleGoToPage
    \/ handleConfirmDelete
    \/ DeleteUserReturns
    \/ RefetchAfterDelete
    \/ \E p \in Procs :
          \/ RankedCount(p)
          \/ RankedFindMany(p)
          \/ SearchFindMany(p)
          \/ DeleteFindUnique(p)
          \/ DeleteDelete(p)

\* one browser, one request at a time, the store answering every statement
SpecUI == InitUI /\ [][NextUI]_vars

Next ==
    \E p \in Procs :
        \/ getRankedUsers(p)
        \/ getRanked(p)
        \/ RankedCount(p)
        \/ RankedFindMany(p)
        \/ searchUsersByKeyword(p)
        \/ SearchFindMany(p)
        \/ deleteUserByUserId(p)
        \/ DeleteFindUnique(p)
        \/ DeleteDelete(p)
        \/ StoreFails(p)
        \/ Return(p)

Spec == Init /\ [][Next]_vars

SpecConcurrent == InitConcurrent /\ [][Next]_vars

(***************************************************************************)
(* Vocabulary of the claims.                                               *)
(***************************************************************************)
InvalidArgument(r) == r.class = "HttpException" /\ r.status = "BAD_REQUEST"
NotFound(r) == r.class = "HttpException" /\ r.status = "NOT_FOUND"
StorageUnavailable(r) ==
    /\ r.class = "HttpException"
    /\ r.status = "INTERNAL_SERVER_ERROR"
    /\ r.message = "An error occurred while accessing the database"
Internal(r) ==
    /\ r.class = "HttpException"
    /\ r.status = "INTERNAL_SERVER_ERROR"
    /\ r.message # "An error occurred while accessing the database"

Active(p, op) == pc[p] # "idle" /\ req[p].op = op
Done(p, op) == pc[p] = "done" /\ req[p].op = op

\* the catch block of the call received an error of the store
StoreFailed(p) == raised[p].class \notin {"none", "HttpException"}

UserIds(rows) == {r.userId : r \in rows}

ValidPageRequest(r) ==
    /\ r.page.kind = "int" /\ r.page.val >= 1
    /\ r.pageSize.kind = "int" /\ r.pageSize.val >= 1 /\ r.pageSize.val <= 1000

ValidKeyword(keyword) ==
    /\ Len(Trim(keyword)) >= 2
    /\ Len(Trim(keyword)) <= 30
    /\ \A i \in 1..Len(keyword) :
           keyword[i] \notin {"<", ">", "{", "}", "[", "]", "\\"}

ValidUserId(userId) ==
    /\ Len(userId) >= 1
    /\ Len(userId) <= 30
    /\ \A i \in 1..Len(userId) :
           userId[i] \notin {"<", ">", "{", "}", "[", "]", "\\"}

\* the least number of pages of `size` rows that hold `total` rows
PagesNeeded(total, size) ==
    CHOOSE k \in 0..total : k * size >= total /\ (k = 0 \/ (k - 1) * size < total)

\* experience a is at least experience b; a row without experience has none
ExpAtLeast(a, b) == b = NULL \/ (a # NULL /\ a[1] >= b[1])

RankOrdered(rows) ==
    \A i \in 1..(Len(rows) - 1) :
        /\ rows[i].level >= rows[i + 1].level
        /\ rows[i].level = rows[i + 1].level => ExpAtLeast(rows[i].exp, rows[i + 1].exp)

\* C1: on a table of totalCount > 0 rows a valid listing of page p with page
\* size n returns exactly min(n, totalCount - (p-1)*n) rows when p is one of
\* the ceil(totalCount/n) pages, and fails NotFound when p lies beyond them
\* (the store answering every statement).
C1_PageHoldsItsShare ==
    \A p \in Procs :
        (/\ Done(p, "getRankedUsers")
         /\ ValidPageRequest(req[p])
         /\ snap[p] # {}
         /\ ~StoreFailed(p))
        => LET total == Cardinality(snap[p])
               n == req[p].pageSize.val
               pg == req[p].page.val
           IN  IF pg <= PagesNeeded(total, n)
               THEN /\ resp[p].class = "RankedUsers"
                    /\ Len(resp[p].users) = Min(n, total - (pg - 1) * n)
               ELSE NotFound(resp[p])

C1_LastPagePartial ==
    \E p \in Procs :
        /\ Done(p, "getRankedUsers")
        /\ resp[p].class = "RankedUsers"
        /\ req[p].page.val > 1
        /\ Len(resp[p].users) >= 1
        /\ Len(resp[p].users) < req[p].pageSize.val
        /\ Len(resp[p].users) = Cardinality(snap[p])
                                  - (req[p].page.val - 1) * req[p].pageSize.val

\* C2: the rows of every listing are in level-descending order, and rows of
\* equal level in experience-descending order.
C2_ListingRankOrdered ==
    \A p \in Procs :
        (Done(p, "getRankedUsers") /\ resp[p].class = "RankedUsers")
        => RankOrdered(resp[p].users)

\* C3: on an empty table every valid listing, whatever its page, succeeds with
\* no rows, totalCount 0, totalPages 0 and hasMore false, after the count
\* alone (the store answering the count).
C3_EmptyTableListsEmpty ==
    \A p \in Procs :
        (/\ Done(p, "getRankedUsers")
         /\ ValidPageRequest(req[p])
         /\ snap[p] = {}
         /\ ~StoreFailed(p))
        => /\ resp[p].class = "RankedUsers"
           /\ resp[p].users = <<>>
           /\ resp[p].totalCount = 0
           /\ resp[p].totalPages = 0
           /\ resp[p].hasMore = FALSE
           /\ issued[p] = <<"count">>

C3_FarPageOfEmptyTable ==
    \E p \in Procs :
        /\ Done(p, "getRankedUsers")
        /\ snap[p] = {}
        /\ req[p].page = Num(BigPage)
        /\ resp[p].class = "RankedUsers"
        /\ resp[p].users = <<>>

\* C4: a delete of a valid identifier that is not in the table fails NotFound;
\* one of an identifier in the table succeeds and removes it; and once a delete
\* of an identifier has returned success, every later delete of it fails
\* NotFound (the store answering every statement).
C4_DeleteOnceThenNotFound ==
    \A p \in Procs :
        (/\ Done(p, "deleteUserByUserId")
         /\ ValidUserId(req[p].userId)
         /\ ~StoreFailed(p))
        => LET userId == req[p].userId
           IN  /\ userId \notin UserIds(snap[p]) => NotFound(resp[p])
               /\ userId \in UserIds(snap[p])
                    => /\ resp[p].class = "Deleted"
                       /\ userId \notin UserIds(store)
               /\ userId \in deleted => NotFound(resp[p])

C4_SecondDeleteNotFound ==
    \E p \in Procs :
        /\ Done(p, "deleteUserByUserId")
        /\ req[p].userId \in deleted
        /\ NotFound(resp[p])

\* a row matches a keyword when its identifier or its display name contains
\* the trimmed keyword, letter case aside
MatchesKeyword(r, keyword) ==
    LET t == ToLower(Trim(keyword))
        inside(field) ==
            \E k \in 1..Len(field) :
                /\ k + Len(t) - 1 <= Len(field)
                /\ ToLower(SubSeq(field, k, k + Len(t) - 1)) = t
    IN  inside(r.userId) \/ inside(r.nickname)

Range(seq) == {seq[i] : i \in 1..Len(seq)}

\* C5: a search returns at most 50 rows, also when more than 50 rows match,
\* and the count it reports is the number of rows it returned.
C5_SearchCappedAndCounted ==
    \A p \in Procs :
        (Done(p, "searchUsersByKeyword") /\ resp[p].class = "SearchResult")
        => /\ Len(resp[p].searchResults) <= 50
           /\ resp[p].totalCount = Len(resp[p].searchResults)

C5_MoreThanFiftyMatch ==
    \E p \in Procs :
        /\ Done(p, "searchUsersByKeyword")
        /\ resp[p].class = "SearchResult"
        /\ Cardinality({r \in snap[p] : MatchesKeyword(r, req[p].keyword)}) > 50
        /\ Len(resp[p].searchResults) = 50
        /\ resp[p].totalCount = 50

\* the rows returned are the matching rows, or the best 50 of them
SearchReturnsBestMatches(p) ==
    LET res == resp[p].searchResults
        matching == {r \in snap[p] : MatchesKeyword(r, req[p].keyword)}
    IN  /\ Len(res) = Min(50, Cardinality(matching))
        /\ Range(res) \subseteq matching
        /\ Cardinality(Range(res)) = Len(res)
        /\ \A m \in matching \ Range(res) : \A i \in 1..Len(res) :
               m.level <= res[i].level

\* C6: the rows of a search are the first min(50, matches) rows of the
\* level-descending, then experience-descending ranking of the rows whose
\* identifier or display name contains the trimmed keyword, letter case aside.
C6_SearchIsRankedMatches ==
    \A p \in Procs :
        (Done(p, "searchUsersByKeyword") /\ resp[p].class = "SearchResult")
        => /\ SearchReturnsBestMatches(p)
           /\ RankOrdered(resp[p].searchResults)

\* C7: a listing fails InvalidArgument exactly when page is no integer >= 1 or
\* pageSize is no integer of 1..1000; no page size is clamped and no page is
\* too large.
C7_PageParamsRejectedExactly ==
    \A p \in Procs :
        Active(p, "getRankedUsers")
        => ((pc[p] = "done" /\ InvalidArgument(resp[p]))
                <=> ~ValidPageRequest(req[p]))

C7_PageSizeAboveLimitRejected ==
    \E p \in Procs :
        /\ Done(p, "getRankedUsers")
        /\ req[p].page = Num(1)
        /\ req[p].pageSize = Num(1001)
        /\ InvalidArgument(resp[p])

\* C8: a search goes on to the store query exactly when the trimmed keyword
\* has 2..30 characters and none of < > { } [ ] \ ; every other keyword
\* fails InvalidArgument.
C8_KeywordRejectedExactly ==
    \A p \in Procs :
        Active(p, "searchUsersByKeyword")
        => IF ValidKeyword(req[p].keyword)
           THEN pc[p] = "search" \/ (pc[p] = "done" /\ issued[p] = <<"search">>)
           ELSE pc[p] = "done" /\ InvalidArgument(resp[p]) /\ issued[p] = <<>>

C8_ForbiddenCharacterRejected ==
    \E p \in Procs :
        /\ Done(p, "searchUsersByKeyword")
        /\ Len(Trim(req[p].keyword)) \in 2..30
        /\ "<" \in Range(req[p].keyword)
        /\ InvalidArgument(resp[p])

\* C9: a failure that carries a classified kind reaches the caller as it is,
\* and every failure of a store statement reaches the caller as
\* StorageUnavailable with the generic message, never as Internal.
C9_StoreFailuresClassified ==
    \A p \in Procs :
        (pc[p] = "done" /\ resp[p].class = "HttpException")
        => /\ raised[p].class = "HttpException" => resp[p] = raised[p]
           /\ StoreFailed(p)
                => /\ StorageUnavailable(resp[p])
                   /\ resp[p].message # raised[p].message

ValidRequest(r) ==
    CASE r.op = "getRankedUsers" -> ValidPageRequest(r)
      [] r.op = "searchUsersByKeyword" -> ValidKeyword(r.keyword)
      [] r.op = "deleteUserByUserId" -> ValidUserId(r.userId)

\* C10: a request whose input fails validation ends InvalidArgument before a
\* single store statement has been issued for it, and no request that ends
\* InvalidArgument has issued one.
C10_ValidationBeforeStore ==
    \A p \in Procs :
        pc[p] # "idle"
        => /\ ~ValidRequest(req[p])
                => pc[p] = "done" /\ InvalidArgument(resp[p]) /\ issued[p] = <<>>
           /\ InvalidArgument(resp[p]) => issued[p] = <<>>

C10_InvalidDeleteTouchesNothing ==
    \E p \in Procs :
        /\ Done(p, "deleteUserByUserId")
        /\ ~ValidUserId(req[p].userId)
        /\ InvalidArgument(resp[p])
        /\ issued[p] = <<>>
        /\ store = snap[p]
        /\ store # {}

\* C11: the table changes only in the step in which a delete succeeds, and
\* that step removes exactly the row of the identifier asked for; listings,
\* searches and deletes that fail leave every row as it is.
C11_OnlyDeleteRemovesOneRow ==
    [][/\ store' # store
          => \E p \in Procs :
                /\ pc[p] = "delete"
                /\ req[p].op = "deleteUserByUserId"
                /\ resp'[p].class = "Deleted"
                /\ \E r \in store :
                      /\ r.userId = req[p].userId
                      /\ store' = store \ {r}
       /\ \A p \in Procs :
             (pc[p] # "done" /\ pc'[p] = "done" /\ resp'[p].class = "Deleted")
             => store' # store]_vars

C11_OneRowRemoved ==
    \E p \in Procs :
        /\ Done(p, "deleteUserByUserId")
        /\ resp[p].class = "Deleted"
        /\ Cardinality(snap[p]) >= 3
        /\ Cardinality(store) = Cardinality(snap[p]) - 1
        /\ store \subseteq snap[p]
        /\ req[p].userId \notin UserIds(store)

\* what a listing or a search returned
ReturnedRows(r) ==
    IF r.class = "RankedUsers" THEN Range(r.users)
    ELSE IF r.class = "SearchResult" THEN Range(r.searchResults)
    ELSE {}

\* C12: a listing or search started after a delete of X has returned success
\* returns no row of identifier X, and the totalCount of the listing counts a
\* table that X is not in.
C12_DeletedRowsStayGone ==
    \A p \in Procs :
        (pc[p] = "done" /\ resp[p].class \in {"RankedUsers", "SearchResult"})
        => /\ \A r \in ReturnedRows(resp[p]) : r.userId \notin seen[p]
           /\ UserIds(snap[p]) \cap seen[p] = {}
           /\ resp[p].class = "RankedUsers"
                => /\ resp[p].totalCount <= Cardinality(snap[p])
                   /\ resp[p].totalCount >= Cardinality(store)

C12_ListedAfterDelete ==
    \E p \in Procs :
        /\ Done(p, "getRankedUsers")
        /\ resp[p].class = "RankedUsers"
        /\ seen[p] # {}
        /\ resp[p].users # <<>>
        /\ resp[p].totalCount = Cardinality(store)

\* the caller has listed every page 1..totalPages of one unchanged table
WalkComplete ==
    /\ walk # NoWalk
    /\ walk.next > walk.pages
    /\ walk.table = store

\* C14: listing pages 1..totalPages of an unchanged table one after another
\* with one pageSize returns every row exactly once, none twice and none
\* omitted, also when rows share level and experience (every row of the
\* table has an experience here, so the order of rows without one plays no
\* part).
C14_WalkListsEveryRowOnce ==
    (WalkComplete /\ \A r \in walk.table : r.exp # NULL)
    => /\ Len(walk.rows) = Cardinality(walk.table)
       /\ Range(walk.rows) = walk.table

\* two deletes of one identifier that both started while its row was in the
\* table have finished, and the store has not failed on either of them
BothDeleted(p, q) ==
    /\ p # q
    /\ Done(p, "deleteUserByUserId") /\ Done(q, "deleteUserByUserId")
    /\ req[p].userId = req[q].userId
    /\ req[p].userId \in UserIds(snap[p]) \cap UserIds(snap[q])
    /\ raised[p] \notin StoreErrors /\ raised[q] \notin StoreErrors

\* C15: of two concurrent deletes of one existing identifier, with the store
\* taking their statements one at a time, exactly one answers success and
\* the other fails NotFound; neither ends as StorageUnavailable or Internal.
C15_ConcurrentDeletesOneWins ==
    \A p, q \in Procs :
        BothDeleted(p, q)
        => /\ \/ resp[p].class = "Deleted" /\ NotFound(resp[q])
              \/ resp[q].class = "Deleted" /\ NotFound(resp[p])
           /\ ~StorageUnavailable(resp[p]) /\ ~Internal(resp[p])
           /\ ~StorageUnavailable(resp[q]) /\ ~Internal(resp[q])

\* C16: every successful listing holds min(pageSize, totalCount -
\* (page-1)*pageSize) rows for the totalCount of that same answer, also when
\* a delete is applied between the listing's count and its findMany (the
\* answer for an empty table, which holds no rows on any page, is C3's case).
C16_ListingMatchesItsCount ==
    \A p \in Procs :
        (/\ Done(p, "getRankedUsers")
         /\ resp[p].class = "RankedUsers"
         /\ resp[p].totalCount > 0)
        => LET rest == resp[p].totalCount
                         - (req[p].page.val - 1) * req[p].pageSize.val
           IN  Len(resp[p].users)
                 = IF req[p].pageSize.val < rest THEN req[p].pageSize.val ELSE rest

\* C13: the list endpoint passes page = 1 / pageSize = 10 to the service when
\* the query string is missing or does not parse, and passes every parsed
\* integer as parsed, so that the service's validation decides on it: page
\* or pageSize "0" and pageSize "1001" fail InvalidArgument.
C13_ParsedQueryReachesService ==
    \A p \in Procs :
        (pc[p] # "idle" /\ req[p].op = "getRankedUsers" /\ req[p].via = "http")
        => LET page == ParseInt(StringOf(req[p].query.page))
               pageSize == ParseInt(StringOf(req[p].query.pageSize))
           IN  /\ req[p].page = IF page = NaN THEN Num(1) ELSE page
               /\ req[p].pageSize = IF pageSize = NaN THEN Num(10) ELSE pageSize
               /\ (/\ pc[p] = "done"
                   /\ \/ page.kind = "int" /\ page.val < 1
                      \/ pageSize.kind = "int" /\ pageSize.val < 1
                      \/ pageSize.kind = "int" /\ pageSize.val > MaxPageSize)
                  => InvalidArgument(resp[p])

\* C17: in the ranking view, on every page the pagination lets the user
\* reach, the listing fetched after a confirmed and successful delete
\* succeeds: the UI shows the refreshed page and not its error state.
C17_RefetchAfterDeleteSucceeds ==
    ~(ui.error /\ ui.failed = "refetch" /\ Len(ui.searchQuery) < MinKeywordLen)

\* C18: every search the UI sends carries a keyword that the service's
\* validation accepts, and typing into the search bar alone never brings
\* the UI into its error state.
C18_TypingNeverFails ==
    /\ (ui.phase = "wait" /\ ui.awaits = "search" /\ ~ui.afterDelete)
       => validateKeyword(ui.searchQuery) = NoError
    /\ (ui.error /\ ui.acts \subseteq {"type"}) => ui.failed \notin {"search"}

====
